---- MODULE Spec2Model ----
(***************************************************************************)
(* Strength Training Monitor (Likzet5/Smart-Weight-Scale).                 *)
(*                                                                         *)
(* State machine of the sensor pipeline: TindeqDevice decodes a            *)
(* notification into samples, App feeds them to DataManager (live values,  *)
(* histories, RFD) and to the UI render buffer, which is drained into the  *)
(* chart by a timeout or by the flush at the end of a recording.           *)
(*                                                                         *)
(* Numbers.  JavaScript numbers are modelled in fixed point:               *)
(*   force-like values   integer multiples of 1/Scale of the unit          *)
(*   rfd values          integer multiples of 1/Scale of the unit per s    *)
(*   times               integer multiples of 1/TimeScale s (Date.now ms)  *)
(* Products and quotients are rounded to the nearest multiple, as the      *)
(* doubles of the program are rounded to the nearest double.  Inf, NegInf  *)
(* and NaN are the three non-finite values a division can produce.         *)
(*                                                                         *)
(* Units.  Every stored force-like quantity carries, next to its number,   *)
(* the unit the number is expressed in ("kg", "lbs", "N", or "none" when   *)
(* the number is not the quantity in any unit).  The program has no such   *)
(* field: it is the dimension of the number, kept to state the unit        *)
(* invariant of the data model.                                            *)
(***************************************************************************)
EXTENDS Integers, Sequences, FiniteSets, TLC

VARIABLES
    data,       \* DataManager fields
    ui,         \* UI fields: recording flag, settings inputs, render buffer
    chart,      \* the chart instance held by UI: labels and the two datasets
    timeouts,   \* number of pending setTimeout(_updateChartFromBuffer) callbacks
    app,        \* App fields: recordingInterval handle, isDemoMode
    intervals,  \* handles of the setInterval timers that are armed
    device,     \* TindeqDevice fields: _connected, _measuring
    awaiting,   \* suspended async calls (bag of continuation names)
    clock,      \* Date.now(), relative to construction
    unitChanges,\* number of unit changes made so far (bounds the run)
    rx,         \* a notification and what _handleDataNotification made of it
    stats,      \* the statistics updateStatistics computed last
    session,    \* how the running session was started, and unit changes since
    conv,       \* a call of convertValue and what it returned
    last        \* the handler that ran last, and whether it ran stopRecording

vars == <<data, ui, chart, timeouts, app, intervals, device, awaiting,
          clock, unitChanges, rx, stats, session, conv, last>>

----------------------------------------------------------------------------
(* Bounds of the model                                                     *)

MaxClock == 1          \* Date.now() advances at most MaxClock times by ClockStep
MaxHist == 2           \* recorded samples per session
MaxUnitChanges == 1    \* unit changes in a run
MaxHandles == 2        \* setInterval timers armed at the same time
MaxTimeouts == 2       \* flush timeouts pending at the same time
MaxAwait == 1          \* suspended calls of one kind at the same time
MaxCount == 3          \* samples a notification announces, and carries
MaxSamples == 3        \* samples of a session of the data manager on its own
MaxDataClock == 2      \* Date.now() advances at most this often for it
MaxDataUnitChanges == 2 \* unit changes of the data manager on its own

----------------------------------------------------------------------------
(* Fixed-point arithmetic                                                  *)

Scale == 1000
TimeScale == 1000
Inf == 1000000000
NegInf == -1000000000
NaN == 2000000000

IsFinite(x) == x # NaN /\ x # Inf /\ x # NegInf

Abs(x) == IF x < 0 THEN -x ELSE x
Sign(x) == IF x < 0 THEN -1 ELSE IF x > 0 THEN 1 ELSE 0

\* <<q, r>> with v * a = q * b + r and 0 <= r < b, for v >= 0, a >= 0, b > 0;
\* digit by digit over a, so that no intermediate product leaves 32 bits.
RECURSIVE MulDivAbs(_, _, _)
MulDivAbs(v, a, b) ==
    IF a = 0 THEN <<0, 0>>
    ELSE LET p == MulDivAbs(v, a \div 10, b)
             t == 10 * p[2] + (a % 10) * v
         IN  <<10 * p[1] + (t \div b), t % b>>

\* v * a / b rounded to the nearest integer (b > 0, a >= 0)
MulRound(v, a, b) ==
    LET p == MulDivAbs(Abs(v), a, b)
    IN  Sign(v) * (p[1] + (IF 2 * p[2] >= b THEN 1 ELSE 0))

\* n / d as JavaScript divides: 0/0 is NaN, x/0 is +-Infinity
JsDiv(n, d, scale) ==
    IF d = 0 THEN (IF n = 0 THEN NaN ELSE IF n > 0 THEN Inf ELSE NegInf)
    ELSE Sign(d) * MulRound(n, scale, Abs(d))

\* a > b as JavaScript compares: false as soon as one side is NaN
JsGt(a, b) == a # NaN /\ b # NaN /\ a > b

\* a <= b as JavaScript compares
JsLe(a, b) == a # NaN /\ b # NaN /\ a <= b

----------------------------------------------------------------------------
(* DataManager  (src/js/data-manager.js)                                   *)

Units == {"kg", "lbs", "N"}

\* conversionFactors, as numerators over FactorScale
FactorScale == 1000000
kgToLbs == 2204620
kgToN == 9806650
lbsToKg == 453592
lbsToN == 4448220
nToKg == 101972
nToLbs == 224809

\* a table whose lbs_to_kg entry holds the factor of N_to_kg
FactorOf_LbsAsN(fromUnit, toUnit) ==
    IF fromUnit = "kg" /\ toUnit = "lbs" THEN kgToLbs
    ELSE IF fromUnit = "kg" /\ toUnit = "N" THEN kgToN
    ELSE IF fromUnit = "lbs" /\ toUnit = "kg" THEN nToKg
    ELSE IF fromUnit = "lbs" /\ toUnit = "N" THEN lbsToN
    ELSE IF fromUnit = "N" /\ toUnit = "kg" THEN nToKg
    ELSE IF fromUnit = "N" /\ toUnit = "lbs" THEN nToLbs
    ELSE 0

\* the factor convertValue multiplies by; 0 when the pair is not supported
FactorOf(fromUnit, toUnit) ==
    IF fromUnit = "kg" /\ toUnit = "lbs" THEN kgToLbs
    ELSE IF fromUnit = "kg" /\ toUnit = "N" THEN kgToN
    ELSE IF fromUnit = "lbs" /\ toUnit = "kg" THEN lbsToKg
    ELSE IF fromUnit = "lbs" /\ toUnit = "N" THEN lbsToN
    ELSE IF fromUnit = "N" /\ toUnit = "kg" THEN nToKg
    ELSE IF fromUnit = "N" /\ toUnit = "lbs" THEN nToLbs
    ELSE 0

\* a conversion that gives 0 for a pair it does not know
convertValue_ZeroUnsupported(value, fromUnit, toUnit) ==
    IF fromUnit = toUnit THEN value
    ELSE IF FactorOf(fromUnit, toUnit) = 0 THEN 0
    ELSE IF ~IsFinite(value) THEN value
    ELSE MulRound(value, FactorOf(fromUnit, toUnit), FactorScale)

convertValue(value, fromUnit, toUnit) ==
    IF fromUnit = toUnit THEN value
    ELSE IF FactorOf(fromUnit, toUnit) = 0 THEN value
    ELSE IF ~IsFinite(value) THEN value
    ELSE MulRound(value, FactorOf(fromUnit, toUnit), FactorScale)

\* whether convertValue reaches its console.warn
convertWarns(fromUnit, toUnit) ==
    fromUnit # toUnit /\ FactorOf(fromUnit, toUnit) = 0

\* the unit of convertValue's result, given the unit of its argument
convertUnit(unit, fromUnit, toUnit) ==
    IF fromUnit = toUnit THEN unit
    ELSE IF unit = fromUnit /\ FactorOf(fromUnit, toUnit) # 0 THEN toUnit
    ELSE "none"

\* the unit of a number computed from numbers in the units of S
CombineUnit(S) == IF \E u \in Units : S = {u} THEN CHOOSE u \in Units : S = {u}
                  ELSE "none"

\* the fields the constructor sets, then the settings App's constructor
\* copies from the inputs of the page (updateSettings)
DataInit ==
    [ currentForce |-> 0, peakForce |-> 0, forceHistory |-> <<>>,
      currentRFD |-> 0, peakRFD |-> 0, rfdHistory |-> <<>>,
      rfdWindow |-> 100, rfdSmoothingFactor |-> 3,
      isRecording |-> FALSE, recordingStartTime |-> 0,
      weightUnit |-> "kg",
      targetForce |-> 10 * Scale, targetRFD |-> 20 * Scale,
      maxForceRange |-> 20 * Scale, maxRFDRange |-> 40 * Scale,
      unitOf |-> [ currentForce |-> "kg", peakForce |-> "kg",
                   currentRFD |-> "kg", peakRFD |-> "kg",
                   targetForce |-> "kg", maxForceRange |-> "kg",
                   maxRFDRange |-> "kg" ] ]

\* rfdSmoothingFactor is kept in tenths (0.3 is 3)
AlphaScale == 10

\* startRecording that keeps the RFD history and the RFD peak
DM_startRecording_KeepRFD(d, now) ==
    [d EXCEPT !.recordingStartTime = now, !.isRecording = TRUE,
              !.forceHistory = <<>>]

DM_startRecording(d, now) ==
    [d EXCEPT !.recordingStartTime = now, !.isRecording = TRUE,
              !.forceHistory = <<>>, !.rfdHistory = <<>>,
              !.peakRFD = 0, !.unitOf.peakRFD = d.weightUnit]

\* stopRecording that empties the histories
DM_stopRecording_Truncating(d) ==
    [d EXCEPT !.isRecording = FALSE, !.forceHistory = <<>>,
              !.rfdHistory = <<>>]

DM_stopRecording(d) == [d EXCEPT !.isRecording = FALSE]

Last(s) == s[Len(s)]

\* number of points the window scan of _calculateRFD collects: it walks the
\* history from its end and stops at the first point outside the window
RECURSIVE RecentCount(_, _, _, _)
RecentCount(hist, i, currentTime, window) ==
    IF i = 0 THEN 0
    ELSE IF JsLe(currentTime - hist[i].time, window)
         THEN 1 + RecentCount(hist, i - 1, currentTime, window)
         ELSE 0

\* sums of the regression loop over hist[from..to]
RECURSIVE SumX(_, _, _)
SumX(hist, from, to) ==
    IF from > to THEN 0 ELSE hist[from].time + SumX(hist, from + 1, to)

RECURSIVE SumY(_, _, _)
SumY(hist, from, to) ==
    IF from > to THEN 0 ELSE hist[from].force + SumY(hist, from + 1, to)

RECURSIVE SumXY(_, _, _)
SumXY(hist, from, to) ==
    IF from > to THEN 0
    ELSE hist[from].time * hist[from].force + SumXY(hist, from + 1, to)

RECURSIVE SumXX(_, _, _)
SumXX(hist, from, to) ==
    IF from > to THEN 0
    ELSE hist[from].time * hist[from].time + SumXX(hist, from + 1, to)

\* slope of the least-squares line through hist[from..to], in 1/Scale units per s
RegressionSlope(hist, from, to) ==
    LET n == to - from + 1
        sumX == SumX(hist, from, to)
        sumY == SumY(hist, from, to)
        sumXY == SumXY(hist, from, to)
        sumXX == SumXX(hist, from, to)
    IN  JsDiv(n * sumXY - sumX * sumY, n * sumXX - sumX * sumX, TimeScale)

\* a two-point slope that divides whatever the time difference is
TwoPointRFD_Unguarded(currentTime, currentForce, prevPoint) ==
    JsDiv(currentForce - prevPoint.force, currentTime - prevPoint.time,
          TimeScale)

\* the two-point slope of the fallback
TwoPointRFD(currentTime, currentForce, prevPoint) ==
    LET deltaForce == currentForce - prevPoint.force
        deltaTime == currentTime - prevPoint.time
    IN  IF deltaTime > 0 THEN JsDiv(deltaForce, deltaTime, TimeScale) ELSE 0

\* a smoothing with the weights of raw and prevRFD exchanged
Smooth_Swapped(alpha, raw, prevRFD) ==
    IF raw = NaN \/ prevRFD = NaN THEN NaN
    ELSE IF ~IsFinite(raw) \/ ~IsFinite(prevRFD) THEN NaN
    ELSE LET s == alpha * prevRFD + (AlphaScale - alpha) * raw
         IN  Sign(s) * MulRound(Abs(s), 1, AlphaScale)

\* alpha * raw + (1 - alpha) * prevRFD
Smooth(alpha, raw, prevRFD) ==
    IF raw = NaN \/ prevRFD = NaN THEN NaN
    ELSE IF ~IsFinite(raw) /\ ~IsFinite(prevRFD)
         THEN (IF raw = prevRFD THEN raw ELSE NaN)
    ELSE IF ~IsFinite(raw) THEN raw
    ELSE IF ~IsFinite(prevRFD) THEN prevRFD
    ELSE LET s == alpha * raw + (AlphaScale - alpha) * prevRFD
         IN  Sign(s) * MulRound(Abs(s), 1, AlphaScale)

\* a test that takes every RFD for a new peak
ExceedsPeak_Always(currentRFD, peakRFD) == TRUE

\* this.currentRFD > this.peakRFD
ExceedsPeak(currentRFD, peakRFD) == JsGt(currentRFD, peakRFD)

\* _calculateRFD, called when the new point is already in forceHistory
DM_calculateRFD(d, currentTime, currentForce) ==
    LET fh == d.forceHistory
        n == Len(fh)
    IN
    IF n < 2
    THEN [d EXCEPT !.rfdHistory = Append(@, [time |-> currentTime, rfd |-> 0,
                                             unit |-> Last(fh).unit]),
                   !.currentRFD = 0,
                   !.unitOf.currentRFD = Last(fh).unit]
    ELSE
    LET k == RecentCount(fh, n, currentTime, d.rfdWindow)
        raw == IF k < 2 THEN TwoPointRFD(currentTime, currentForce, fh[n - 1])
               ELSE RegressionSlope(fh, n - k + 1, n)
        rawUnit == IF k < 2 THEN CombineUnit({fh[n].unit, fh[n - 1].unit})
                   ELSE CombineUnit({fh[i].unit : i \in (n - k + 1) .. n})
        hasPrev == Len(d.rfdHistory) > 0
        cur == IF hasPrev
               THEN Smooth(d.rfdSmoothingFactor, raw, Last(d.rfdHistory).rfd)
               ELSE raw
        curUnit == IF hasPrev THEN CombineUnit({rawUnit, Last(d.rfdHistory).unit})
                   ELSE rawUnit
        newPeak == ExceedsPeak(cur, d.peakRFD)
    IN  [d EXCEPT !.currentRFD = cur,
                  !.unitOf.currentRFD = curUnit,
                  !.peakRFD = IF newPeak THEN cur ELSE @,
                  !.unitOf.peakRFD = IF newPeak THEN curUnit ELSE @,
                  !.rfdHistory = Append(@, [time |-> currentTime, rfd |-> cur,
                                            unit |-> curUnit])]

\* timeElapsed of addForceDataPoint
TimeElapsed(d, now) == now - d.recordingStartTime

\* addForceDataPoint without the call of _calculateRFD
DM_addForceDataPoint_NoRFD(d, force, unit, now) ==
    IF ~d.isRecording THEN d
    ELSE [d EXCEPT !.forceHistory =
            Append(@, [time |-> TimeElapsed(d, now), force |-> force,
                       unit |-> unit])]

\* addForceDataPoint(force) at Date.now() = now; unit is the unit of force
DM_addForceDataPoint(d, force, unit, now) ==
    IF ~d.isRecording THEN d
    ELSE LET timeElapsed == TimeElapsed(d, now)
             d1 == [d EXCEPT !.forceHistory =
                        Append(@, [time |-> timeElapsed, force |-> force,
                                   unit |-> unit])]
         IN  DM_calculateRFD(d1, timeElapsed, force)

DM_updateForce(d, force, unit) ==
    LET newPeak == force > d.peakForce
    IN  [d EXCEPT !.currentForce = force,
                  !.unitOf.currentForce = unit,
                  !.peakForce = IF newPeak THEN force ELSE @,
                  !.unitOf.peakForce = IF newPeak THEN unit ELSE @]

DM_reset(d) ==
    [d EXCEPT !.currentForce = 0, !.peakForce = 0, !.forceHistory = <<>>,
              !.currentRFD = 0, !.peakRFD = 0, !.rfdHistory = <<>>,
              !.unitOf.currentForce = d.weightUnit,
              !.unitOf.peakForce = d.weightUnit,
              !.unitOf.currentRFD = d.weightUnit,
              !.unitOf.peakRFD = d.weightUnit]

DM_changeUnit(d, newUnit) ==
    IF newUnit = d.weightUnit THEN d
    ELSE
    LET oldUnit == d.weightUnit
        cv(x) == convertValue(x, oldUnit, newUnit)
        cu(u) == convertUnit(u, oldUnit, newUnit)
    IN  [d EXCEPT
          !.currentForce = cv(@), !.peakForce = cv(@),
          !.targetForce = cv(@), !.maxForceRange = cv(@),
          !.forceHistory = [i \in 1 .. Len(@) |->
                              [time |-> @[i].time, force |-> cv(@[i].force),
                               unit |-> cu(@[i].unit)]],
          !.currentRFD = cv(@), !.peakRFD = cv(@), !.maxRFDRange = cv(@),
          !.rfdHistory = [i \in 1 .. Len(@) |->
                              [time |-> @[i].time, rfd |-> cv(@[i].rfd),
                               unit |-> cu(@[i].unit)]],
          !.unitOf = [f \in DOMAIN @ |-> cu(@[f])],
          !.weightUnit = newUnit]

\* a + b of two JavaScript numbers
JsAdd(a, b) ==
    IF a = NaN \/ b = NaN THEN NaN
    ELSE IF ~IsFinite(a) /\ ~IsFinite(b) THEN (IF a = b THEN a ELSE NaN)
    ELSE IF ~IsFinite(a) THEN a
    ELSE IF ~IsFinite(b) THEN b
    ELSE a + b

\* values.reduce((acc, x) => acc + x, 0) over the first k values
RECURSIVE ReduceSum(_, _)
ReduceSum(values, k) ==
    IF k = 0 THEN 0 ELSE JsAdd(ReduceSum(values, k - 1), values[k])

\* a mean that divides by one less than the number of values
MeanOf_OneLess(values) ==
    LET sum == ReduceSum(values, Len(values))
    IN  IF ~IsFinite(sum) THEN sum ELSE JsDiv(sum, Len(values) - 1, 1)

\* sum / length
MeanOf(values) ==
    LET sum == ReduceSum(values, Len(values))
    IN  IF ~IsFinite(sum) THEN sum ELSE JsDiv(sum, Len(values), 1)

getAverageForce(d) ==
    IF Len(d.forceHistory) = 0 THEN 0
    ELSE MeanOf([i \in 1 .. Len(d.forceHistory) |-> d.forceHistory[i].force])

getAverageRFD(d) ==
    IF Len(d.rfdHistory) = 0 THEN 0
    ELSE MeanOf([i \in 1 .. Len(d.rfdHistory) |-> d.rfdHistory[i].rfd])

\* the loop of getImpulse over points 2 .. k, as the sum of
\* (force[i] + force[i-1]) * dt, which is twice the impulse in 1/TimeScale s
RECURSIVE ImpulseLoop(_, _)
ImpulseLoop(hist, k) ==
    IF k <= 1 THEN 0
    ELSE ImpulseLoop(hist, k - 1)
         + (hist[k].force + hist[k - 1].force) * (hist[k].time - hist[k - 1].time)

\* an impulse that misses the halving of force[i] + force[i-1]
getImpulse_NoHalf(d) ==
    IF Len(d.forceHistory) <= 1 THEN 0
    ELSE MulRound(ImpulseLoop(d.forceHistory, Len(d.forceHistory)), 1,
                  TimeScale)

getImpulse(d) ==
    IF Len(d.forceHistory) <= 1 THEN 0
    ELSE MulRound(ImpulseLoop(d.forceHistory, Len(d.forceHistory)), 1,
                  2 * TimeScale)

\* the scan of getTimeToPeak and getTimeToPeakRFD over the first k points:
\* the running maximum, which starts at 0, and the time it was set at
RECURSIVE PeakScan(_, _, _)
PeakScan(times, values, k) ==
    IF k = 0 THEN [max |-> 0, time |-> 0]
    ELSE LET p == PeakScan(times, values, k - 1)
         IN  IF JsGt(values[k], p.max)
             THEN [max |-> values[k], time |-> times[k]]
             ELSE p

getTimeToPeak(d) ==
    LET h == d.forceHistory
    IN  IF Len(h) = 0 THEN 0
        ELSE PeakScan([i \in 1 .. Len(h) |-> h[i].time],
                      [i \in 1 .. Len(h) |-> h[i].force], Len(h)).time

getTimeToPeakRFD(d) ==
    LET h == d.rfdHistory
    IN  IF Len(h) = 0 THEN 0
        ELSE PeakScan([i \in 1 .. Len(h) |-> h[i].time],
                      [i \in 1 .. Len(h) |-> h[i].rfd], Len(h)).time

----------------------------------------------------------------------------
(* TindeqDevice  (src/js/tindeq-api.js)                                    *)
(* A notification is the sequence of its bytes; byte k of the DataView is  *)
(* element k + 1 of the sequence.                                          *)

RESPONSE_BATTERY == 0
RESPONSE_WEIGHT == 1
RESPONSE_LOW_BATTERY == 4

RECURSIVE Pow2(_)
Pow2(k) == IF k = 0 THEN 1 ELSE 2 * Pow2(k - 1)

\* a DataView read of size bytes at offset raises a RangeError
RangeError(frame, offset, size) == offset < 0 \/ offset + size > Len(frame)

\* DataView.getUint8(offset)
GetUint8(frame, offset) == frame[offset + 1]

\* DataView.getFloat32(offset, true): the IEEE-754 single whose bytes are
\* frame[offset..offset+3], least significant first, in 1/Scale units.
\* Exact (up to the rounding to 1/Scale) for biased exponents up to 112, where
\* the value is below half of 1/Scale, and from 123 to 137.
GetFloat32(frame, offset) ==
    LET b0 == frame[offset + 1]
        b1 == frame[offset + 2]
        b2 == frame[offset + 3]
        b3 == frame[offset + 4]
        negative == b3 >= 128
        e == (b3 % 128) * 2 + (b2 \div 128)
        m == (b2 % 128) * 65536 + b1 * 256 + b0
        mag == IF e = 255 THEN (IF m = 0 THEN Inf ELSE NaN)
               ELSE IF e <= 112 THEN 0
               ELSE MulRound(8388608 + m, Scale, Pow2(150 - e))
    IN  IF mag = NaN THEN NaN ELSE IF negative THEN -mag ELSE mag

\* DataView.getUint32(offset, true), as its two 16-bit halves <<high, low>>
GetUint32(frame, offset) ==
    << frame[offset + 4] * 256 + frame[offset + 3],
       frame[offset + 2] * 256 + frame[offset + 1] >>

\* the sample whose 8 bytes start at offset
SampleAt(frame, offset) ==
    [weight |-> GetFloat32(frame, offset),
     timestamp |-> GetUint32(frame, offset + 4)]

\* the two reads of SampleAt are inside the DataView
SampleReadable(frame, offset) ==
    ~RangeError(frame, offset, 4) /\ ~RangeError(frame, offset + 4, 4)

\* the length test with < for <=
SampleFitsStrict(frame, offset) == offset + 8 < Len(frame)

\* the length test of the batch loop
SampleFits(frame, offset) == offset + 8 <= Len(frame)

\* the batch loop of the WEIGHT case, from sample i on: the samples passed to
\* onWeightUpdate, and whether a read raised (which ends the loop)
RECURSIVE BatchSamples(_, _, _)
BatchSamples(frame, i, count) ==
    IF i >= count THEN [samples |-> <<>>, raised |-> FALSE]
    ELSE LET offset == 2 + i * 8 IN
         IF ~SampleFits(frame, offset) THEN BatchSamples(frame, i + 1, count)
         ELSE IF ~SampleReadable(frame, offset)
              THEN [samples |-> <<>>, raised |-> TRUE]
         ELSE LET rest == BatchSamples(frame, i + 1, count)
              IN  [rest EXCEPT !.samples = << SampleAt(frame, offset) >> \o @]

NoOutput == [samples |-> <<>>, battery |-> <<>>, raised |-> FALSE]

\* a handler that reads a notification with an unknown code as a batch
HandleDataNotification_DefaultBatch(frame) ==
    IF Len(frame) < 1 THEN NoOutput
    ELSE
    LET responseCode == GetUint8(frame, 0) IN
    IF responseCode = RESPONSE_BATTERY THEN
        IF Len(frame) >= 5
        THEN [NoOutput EXCEPT !.battery = << GetUint32(frame, 1) >>]
        ELSE NoOutput
    ELSE IF responseCode = RESPONSE_LOW_BATTERY THEN
        [NoOutput EXCEPT !.battery = << <<0, 0>> >>]
    ELSE IF Len(frame) >= 2
    THEN LET batch == BatchSamples(frame, 0, GetUint8(frame, 1))
         IN  [NoOutput EXCEPT !.samples = batch.samples,
                              !.raised = batch.raised]
    ELSE NoOutput

\* _handleDataNotification: the onWeightUpdate and onBatteryUpdate calls it
\* makes, in order, and whether its try block caught an exception
HandleDataNotification(frame) ==
    IF Len(frame) < 1 THEN NoOutput
    ELSE
    LET responseCode == GetUint8(frame, 0) IN
    IF responseCode = RESPONSE_WEIGHT THEN
        IF Len(frame) >= 2
        THEN LET batch == BatchSamples(frame, 0, GetUint8(frame, 1))
             IN  [NoOutput EXCEPT !.samples = batch.samples,
                                  !.raised = batch.raised]
        ELSE IF Len(frame) >= 9
        THEN [NoOutput EXCEPT !.samples = << SampleAt(frame, 1) >>]
        ELSE NoOutput
    ELSE IF responseCode = RESPONSE_BATTERY THEN
        IF Len(frame) >= 5
        THEN [NoOutput EXCEPT !.battery = << GetUint32(frame, 1) >>]
        ELSE NoOutput
    ELSE IF responseCode = RESPONSE_LOW_BATTERY THEN
        [NoOutput EXCEPT !.battery = << <<0, 0>> >>]
    ELSE NoOutput

----------------------------------------------------------------------------
(* The state of the page as one record, so that the methods below compose  *)
(* the way the handlers call them.                                         *)

World == [data |-> data, ui |-> ui, chart |-> chart, timeouts |-> timeouts,
          app |-> app, intervals |-> intervals, device |-> device,
          awaiting |-> awaiting, last |-> last]

Becomes(w) ==
    /\ data' = w.data
    /\ ui' = w.ui
    /\ chart' = w.chart
    /\ timeouts' = w.timeouts
    /\ app' = w.app
    /\ intervals' = w.intervals
    /\ device' = w.device
    /\ awaiting' = w.awaiting
    /\ last' = w.last

\* the handlers the properties tell from the others
Watched == {"disconnected", "resetData"}

\* what a handler leaves in last: its name when it is watched, whether it
\* called App.stopRecording, what ui.showError was called for in it (the
\* command whose write was rejected, told by device.onError, or "handler"
\* for an error the handler found itself), and the message it left
Observed(op) ==
    [op |-> IF op \in Watched THEN op ELSE "other", stopped |-> FALSE,
     reported |-> "none", shown |-> "none"]

Enter(w, op) == [w EXCEPT !.last = Observed(op)]

----------------------------------------------------------------------------
(* UI  (src/js/ui.js, the class with the render buffer)                    *)

\* label of a chart point: timestamp.toFixed(2), in hundredths of a second
ToFixed2(time) == MulRound(time, 100, TimeScale)

UI_updateChartFromBuffer(w) ==
    IF ~w.ui.chart \/ Len(w.ui.chartDataBuffer) = 0
    THEN [w EXCEPT !.ui.isChartUpdateScheduled = FALSE]
    ELSE LET buf == w.ui.chartDataBuffer IN
         [w EXCEPT
            !.chart.labels = @ \o [i \in 1 .. Len(buf) |-> ToFixed2(buf[i].timestamp)],
            !.chart.force = @ \o [i \in 1 .. Len(buf) |-> buf[i].force],
            !.chart.rfd = @ \o [i \in 1 .. Len(buf) |-> buf[i].rfd],
            !.chart.updates = @ + 1,
            !.ui.chartDataBuffer = <<>>,
            !.ui.isChartUpdateScheduled = FALSE]

UI_flushChartData(w) == UI_updateChartFromBuffer(w)

UI_updateRecordingStatus(w, recording) ==
    LET w1 == IF w.ui.recording /\ ~recording THEN UI_flushChartData(w) ELSE w
    IN  [w1 EXCEPT !.ui.recording = recording]

\* addChartDataPoint without the test of isChartUpdateScheduled
UI_addChartDataPoint_AlwaysSchedule(w, dataPoint) ==
    IF ~w.ui.chart \/ ~w.ui.recording THEN w
    ELSE [w EXCEPT !.ui.chartDataBuffer = Append(@, dataPoint),
                   !.ui.isChartUpdateScheduled = TRUE,
                   !.timeouts = @ + 1]

UI_addChartDataPoint(w, dataPoint) ==
    IF ~w.ui.chart \/ ~w.ui.recording THEN w
    ELSE LET w1 == [w EXCEPT !.ui.chartDataBuffer = Append(@, dataPoint)]
         IN  IF ~w1.ui.isChartUpdateScheduled
             THEN [w1 EXCEPT !.ui.isChartUpdateScheduled = TRUE,
                             !.timeouts = @ + 1]
             ELSE w1

\* the chart as resetChart leaves it
EmptyChart == [labels |-> <<>>, force |-> <<>>, rfd |-> <<>>, updates |-> 0]

UI_resetChart(w) ==
    IF ~w.ui.chart THEN w
    ELSE [w EXCEPT !.ui.chartDataBuffer = <<>>, !.chart = EmptyChart]

UI_updateConnectionStatus(w, connected) == [w EXCEPT !.ui.connected = connected]

UI_updateDemoStatus(w, enabled) == [w EXCEPT !.ui.demoMode = enabled]

\* getSettings: the inputs of the page; rfdWindow is typed in ms
UI_getSettings(w) == w.ui.inputs

\* updateButtonStates: the buttons that are enabled
ActiveConnection(w) == w.ui.connected \/ w.ui.demoMode
StartEnabled(w) == ActiveConnection(w) /\ ~w.ui.recording
StopEnabled(w) == w.ui.recording
ResetEnabled(w) == ActiveConnection(w)
ConnectEnabled(w) == ~ActiveConnection(w)

----------------------------------------------------------------------------
(* App  (src/unnamed/part_001, the revision of js/main.js that feeds the   *)
(* render buffer)                                                          *)
(* An async method runs as one step up to an await of a Bluetooth write    *)
(* and as another step from there; awaiting counts the suspended calls:    *)
(*   start       startRecording, at await device.startMeasurement()        *)
(*   stop        stopRecording, at await device.stopMeasurement()          *)
(*   stopToggle  the same, called by toggleDemoMode                        *)
(*   toggleDisc  toggleDemoMode, at await disconnectDevice()               *)

Kinds == {"start", "stop", "stopToggle", "toggleDisc", "tare", "calibrate",
          "battery"}

\* the commands written outside of a recording's start and stop
CommandKinds == {"tare", "calibrate", "battery"}

Suspend(w, kind) == [w EXCEPT !.awaiting[kind] = @ + 1]
Resume(w, kind) == [w EXCEPT !.awaiting[kind] = @ - 1]

\* _processNewForceValue(force, isRecording); unit is the unit of force
APP_processNewForceValue(w, force, unit, isRecording, now) ==
    LET w1 == [w EXCEPT !.data = DM_updateForce(@, force, unit)]
    IN  IF ~isRecording THEN w1
        ELSE LET d2 == DM_addForceDataPoint(w1.data, force, unit, now)
                 timeSeconds == IF w1.data.isRecording
                                THEN TimeElapsed(w1.data, now) ELSE 0
                 point == [timestamp |-> timeSeconds, force |-> force,
                           rfd |-> d2.currentRFD]
             IN  UI_addChartDataPoint([w1 EXCEPT !.data = d2], point)

\* device.onWeightUpdate for each sample of a notification, in order
RECURSIVE APP_onWeightUpdates(_, _, _)
APP_onWeightUpdates(w, samples, now) ==
    IF samples = <<>> THEN w
    ELSE APP_onWeightUpdates(
            APP_processNewForceValue(w, Head(samples).weight, "kg",
                                     w.data.isRecording, now),
            Tail(samples), now)

\* stopRecording from the statement after await device.stopMeasurement()
APP_stopRecordingEnd(w) == UI_updateRecordingStatus(w, FALSE)

\* whether stopRecording waits for device.stopMeasurement()
StopSuspends(w) == ~w.app.isDemoMode /\ w.device.connected

\* ui.showError(message), called for cause
UI_showError(w, cause) ==
    [w EXCEPT !.last.reported = cause, !.last.shown = "error"]

\* ui.showSuccess(message)
UI_showSuccess(w) == [w EXCEPT !.last.shown = "success"]

\* device.onError of App, given the error of the write of command
APP_onError(w, command) == UI_showError(w, command)

\* a rejected write that is not told to onError
DEV_sendCommandRejected_Silent(w, command) == w

\* _sendCommand when writeValue rejects: the catch calls onError, and the
\* command resolves to false
DEV_sendCommandRejected(w, command) == APP_onError(w, command)

\* tareDevice up to the await: _sendCommand throws when not connected
APP_tareDevice(w) ==
    IF ~w.device.connected THEN UI_showError(w, "handler")
    ELSE Suspend(w, "tare")

\* calibrateDevice up to the await; valid tells that the weight typed is a
\* number above 0
APP_calibrateDevice(w, valid) ==
    IF ~valid \/ ~w.device.connected THEN UI_showError(w, "handler")
    ELSE Suspend(w, "calibrate")

\* a command of CommandKinds from the settling of its write on
APP_commandEnd(w, kind, written) ==
    LET w1 == IF written THEN w ELSE DEV_sendCommandRejected(w, kind)
    IN  IF kind = "calibrate" THEN UI_showSuccess(w1) ELSE w1

\* the tare and calibrate buttons are enabled
CalibrationEnabled(w) == w.ui.connected /\ ~w.ui.recording

\* stopRecording without the clearInterval
APP_stopRecording_KeepTimer(w, kind) ==
    LET w2 == [w EXCEPT !.last.stopped = TRUE, !.data = DM_stopRecording(@)]
    IN  IF StopSuspends(w2) THEN Suspend(w2, kind)
        ELSE APP_stopRecordingEnd(w2)

\* stopRecording up to the await; suspended as kind when it has to wait
APP_stopRecording(w, kind) ==
    LET h == w.app.recordingInterval
        w0 == [w EXCEPT !.last.stopped = TRUE]
        w1 == IF h # 0
              THEN [w0 EXCEPT !.intervals = @ \ {h},
                              !.app.recordingInterval = 0]
              ELSE w0
        w2 == [w1 EXCEPT !.data = DM_stopRecording(@)]
    IN  IF StopSuspends(w2) THEN Suspend(w2, kind)
        ELSE APP_stopRecordingEnd(w2)

\* onConnectionChange without the stop of the recording
APP_onConnectionChange_NoStop(w, connected) ==
    UI_updateConnectionStatus(w, connected)

\* device.onConnectionChange
APP_onConnectionChange(w, connected) ==
    LET w1 == UI_updateConnectionStatus(w, connected)
    IN  IF ~connected /\ w1.data.isRecording
        THEN APP_stopRecording(w1, "stop")
        ELSE w1

\* data.prepareNewRecording(): the reset of the session data at the head of
\* startRecording and in resetData.  js/data-manager.js has no method of this
\* name; js/main.js assigns the six session fields in line at the head of
\* startRecording and calls data.reset() in resetData, which is the same reset.
DM_prepareNewRecording(d) == DM_reset(d)

APP_resetData(w) ==
    UI_resetChart([w EXCEPT !.data = DM_prepareNewRecording(@)])

\* setInterval: a handle that is not armed (one past the bound when all are)
FreshHandle(w) ==
    IF \E h \in 1 .. MaxHandles : h \notin w.intervals
    THEN CHOOSE h \in 1 .. MaxHandles : h \notin w.intervals
    ELSE MaxHandles + 1

\* startRecording from the statement after await device.startMeasurement()
APP_startRecordingEnd(w) ==
    LET h == FreshHandle(w)
    IN  [w EXCEPT !.intervals = @ \cup {h}, !.app.recordingInterval = h]

\* startRecording up to the await; _sendCommand throws when the device is not
\* connected, and the catch of startRecording shows the error
APP_startRecording(w, now) ==
    LET w1 == [w EXCEPT !.data = DM_prepareNewRecording(@)]
        w2 == UI_resetChart(w1)
        w3 == [w2 EXCEPT !.data = DM_startRecording(@, now)]
        w4 == UI_updateRecordingStatus(w3, TRUE)
    IN  IF w4.app.isDemoMode THEN APP_startRecordingEnd(w4)
        ELSE IF ~w4.device.connected THEN UI_showError(w4, "handler")
        ELSE Suspend(w4, "start")

\* device.disconnect() from its last await on: _cleanupConnection has reset
\* the state, onConnectionChange(false) is called
DEV_disconnectEnd(w) ==
    APP_onConnectionChange(
        [w EXCEPT !.device = [connected |-> FALSE, measuring |-> FALSE]],
        FALSE)

\* disconnectDevice, called by toggleDemoMode, up to await device.disconnect()
APP_disconnectDevice(w) ==
    Suspend(IF w.data.isRecording THEN APP_stopRecording(w, "stop") ELSE w,
            "toggleDisc")

\* toggleDemoMode from the statement after await this.stopRecording()
APP_toggleDemoModeEnd(w) ==
    IF w.app.isDemoMode /\ w.device.connected
    THEN APP_disconnectDevice(w)
    ELSE APP_resetData(w)

\* the settings App.updateSettings copies into the data manager
APP_updateSettings(w) ==
    LET settings == UI_getSettings(w)
    IN  [w EXCEPT !.data.targetForce = settings.targetForce,
                  !.data.targetRFD = settings.targetRFD,
                  !.data.maxForceRange = settings.maxForceRange,
                  !.data.maxRFDRange = settings.maxRFDRange,
                  !.data.rfdWindow = settings.rfdWindow,
                  !.data.rfdSmoothingFactor = 3,
                  !.data.unitOf.targetForce = w.data.weightUnit,
                  !.data.unitOf.maxForceRange = w.data.weightUnit,
                  !.data.unitOf.maxRFDRange = w.data.weightUnit]

----------------------------------------------------------------------------
(* Inputs of the model                                                     *)

RECORDING_UPDATE_INTERVAL_MS == 100

\* Date.now() is read at multiples of half the period of the recording timer
ClockStep == RECORDING_UPDATE_INTERVAL_MS \div 2

\* bytes of the singles 2.0, 3.0, -1.0 and 2.0000002, and of a device timestamp
F32_2 == <<0, 0, 0, 64>>
F32_3 == <<0, 0, 64, 64>>
F32_m1 == <<0, 0, 128, 191>>
F32_2b == <<1, 0, 0, 64>>
U32_ts == <<16, 39, 0, 0>>

\* notifications the connected device sends: one sample, two samples, a
\* battery reading
Frames ==
    { <<RESPONSE_WEIGHT, 1>> \o F32_m1 \o U32_ts,
      <<RESPONSE_WEIGHT, 2>> \o F32_3 \o U32_ts \o F32_2 \o U32_ts,
      <<RESPONSE_BATTERY, 184, 11, 0, 0>> }

\* the bytes of k samples
RECURSIVE SampleBytes(_)
SampleBytes(k) ==
    IF k = 0 THEN <<>>
    ELSE SampleBytes(k - 1)
         \o (IF k % 3 = 1 THEN F32_2 ELSE IF k % 3 = 2 THEN F32_3 ELSE F32_m1)
         \o U32_ts

\* notifications given to the decoder: every prefix of a batch of up to
\* MaxCount samples under every count up to MaxCount + 1, single-sample
\* notifications of the older firmware with and without a trailing byte,
\* battery notifications, short and unknown ones
BatchFrames ==
    { <<RESPONSE_WEIGHT, n>> \o SubSeq(SampleBytes(MaxCount), 1, k) :
        n \in 0 .. MaxCount + 1, k \in 0 .. 8 * MaxCount }

LegacyFrames ==
    { <<RESPONSE_WEIGHT>> \o f \o U32_ts \o pad :
        f \in {F32_2, F32_3, F32_m1, F32_2b}, pad \in {<<>>, <<0>>} }

DecoderFrames ==
    BatchFrames \cup LegacyFrames
    \cup { <<>>, <<RESPONSE_WEIGHT>>, <<RESPONSE_BATTERY, 184, 11, 0, 0>>,
           <<RESPONSE_BATTERY, 184>>, <<RESPONSE_LOW_BATTERY>>, <<9>>,
           <<9, 2>> \o SampleBytes(2) }

\* forces the demo generator produces
DemoForces == {2 * Scale}

\* what the inputs of the page hold when the page is loaded
DefaultInputs ==
    [weightUnit |-> "kg", maxForceRange |-> 20 * Scale,
     maxRFDRange |-> 40 * Scale, recordDuration |-> 10 * TimeScale,
     targetForce |-> 10 * Scale, targetRFD |-> 20 * Scale, rfdWindow |-> 100]

\* values typed into the record-duration (s) and rfd-window (ms) inputs
TypedSettings ==
    { [recordDuration |-> DefaultInputs.recordDuration,
       rfdWindow |-> DefaultInputs.rfdWindow],
      [recordDuration |-> ClockStep, rfdWindow |-> 20] }

----------------------------------------------------------------------------
(* Initial state: after new App()                                          *)

\* nothing received: followed tells that a notification came before the one
\* in frame, and before is its bytes
NoRx == [frame |-> <<>>, decoded |-> FALSE, out |-> NoOutput,
         followed |-> FALSE, before |-> <<>>]

\* no statistics computed yet
NoStats == [computed |-> FALSE, timeToPeak |-> 0, avgForce |-> 0, impulse |-> 0,
            timeToPeakRFD |-> 0, avgRFD |-> 0]

\* no session started, no unit change made:
\*   restarted  the session was started while one with a non-zero RFD ran
\*   pure       no unit change since the session started
\*   tracked    the last calls were changes unit changes and statistics only,
\*              origin is the data before them, via the unit of the first
NoSession == [restarted |-> FALSE, pure |-> TRUE, tracked |-> FALSE,
              origin |-> DataInit, via |-> "kg", changes |-> 0]

\* no call of convertValue made
NoConv == [value |-> 0, fromUnit |-> "kg", toUnit |-> "kg", called |-> FALSE,
           out |-> 0, warned |-> FALSE]

InitPage ==
    /\ data = DataInit
    /\ ui = [connected |-> FALSE, recording |-> FALSE, demoMode |-> FALSE,
             chart |-> TRUE, chartDataBuffer |-> <<>>,
             isChartUpdateScheduled |-> FALSE, inputs |-> DefaultInputs]
    /\ chart = EmptyChart
    /\ timeouts = 0
    /\ app = [recordingInterval |-> 0, isDemoMode |-> FALSE]
    /\ intervals = {}
    /\ device = [connected |-> FALSE, measuring |-> FALSE]
    /\ awaiting = [k \in Kinds |-> 0]
    /\ clock = 0
    /\ unitChanges = 0
    /\ last = Observed("init")
    /\ stats = NoStats
    /\ session = NoSession

Init == InitPage /\ rx = NoRx /\ conv = NoConv

\* the decoder before it is given a notification of DecoderFrames
InitDecode ==
    /\ InitPage
    /\ rx \in {[NoRx EXCEPT !.frame = f] : f \in DecoderFrames}
    /\ conv = NoConv

----------------------------------------------------------------------------
(* Events                                                                  *)

\* the handler ends in w; the bounds of the model hold in w
Do(w) ==
    /\ w.timeouts <= MaxTimeouts
    /\ w.intervals \subseteq 1 .. MaxHandles
    /\ \A kind \in Kinds : w.awaiting[kind] <= MaxAwait
    /\ Len(w.data.forceHistory) <= MaxHist
    /\ Becomes(w)
    /\ UNCHANGED <<rx, stats, session, conv>>

\* time passes
Tick ==
    /\ clock < MaxClock * ClockStep
    /\ clock' = clock + ClockStep
    /\ UNCHANGED <<data, ui, chart, timeouts, app, intervals, device,
                   awaiting, unitChanges, rx, stats, session, conv, last>>

\* connect button; device.connect() succeeds
Connect ==
    /\ ConnectEnabled(World)
    /\ ~device.connected
    /\ Do(APP_onConnectionChange(
            [Enter(World, "connect") EXCEPT !.device.connected = TRUE], TRUE))
    /\ UNCHANGED <<clock, unitChanges>>

\* gattserverdisconnected: _handleDisconnect
Disconnected ==
    /\ device.connected
    /\ Do(APP_onConnectionChange(
            [Enter(World, "disconnected") EXCEPT
                !.device = [connected |-> FALSE, measuring |-> FALSE]], FALSE))
    /\ UNCHANGED <<clock, unitChanges>>

\* characteristicvaluechanged: _handleDataNotification(frame)
Notify(frame) ==
    /\ device.connected
    /\ Do(APP_onWeightUpdates(Enter(World, "notify"),
                              HandleDataNotification(frame).samples, clock))
    /\ UNCHANGED <<clock, unitChanges>>

\* start button
StartRecording ==
    /\ StartEnabled(World)
    /\ Do(APP_startRecording(Enter(World, "startRecording"), clock))
    /\ UNCHANGED <<clock, unitChanges>>

\* the START_MEASUREMENT write settles: written, or rejected
StartResume(written) ==
    LET w0 == Resume(Enter(World, "startResume"), "start")
        w1 == IF written THEN [w0 EXCEPT !.device.measuring = TRUE]
              ELSE DEV_sendCommandRejected(w0, "start")
    IN  /\ awaiting["start"] > 0
        /\ written => device.connected
        /\ Do(APP_startRecordingEnd(w1))
        /\ UNCHANGED <<clock, unitChanges>>

\* stop button
StopRecording ==
    /\ StopEnabled(World)
    /\ Do(APP_stopRecording(Enter(World, "stopRecording"), "stop"))
    /\ UNCHANGED <<clock, unitChanges>>

\* the STOP_MEASUREMENT write of a suspended stopRecording settles
StopResume(kind, written) ==
    LET w0 == Resume(Enter(World, "stopResume"), kind)
        w1 == IF written THEN [w0 EXCEPT !.device.measuring = FALSE]
              ELSE DEV_sendCommandRejected(w0, kind)
        w2 == APP_stopRecordingEnd(w1)
    IN  /\ awaiting[kind] > 0
        /\ written => device.connected
        /\ Do(IF kind = "stopToggle" THEN APP_toggleDemoModeEnd(w2) ELSE w2)
        /\ UNCHANGED <<clock, unitChanges>>

\* device.disconnect() completes for toggleDemoMode, which goes on to the end
DisconnectResume ==
    LET w0 == Resume(Enter(World, "disconnectResume"), "toggleDisc")
    IN  /\ awaiting["toggleDisc"] > 0
        /\ Do(APP_resetData(DEV_disconnectEnd(w0)))
        /\ UNCHANGED <<clock, unitChanges>>

\* demo button
ToggleDemoMode ==
    LET w0 == Enter(World, "toggleDemoMode")
        w1 == UI_updateDemoStatus(
                [w0 EXCEPT !.app.isDemoMode = ~@], ~app.isDemoMode)
    IN  /\ Do(IF data.isRecording /\ StopSuspends(w1)
              THEN APP_stopRecording(w1, "stopToggle")
              ELSE APP_toggleDemoModeEnd(
                     IF data.isRecording THEN APP_stopRecording(w1, "stop")
                     ELSE w1))
        /\ UNCHANGED <<clock, unitChanges>>

\* reset button
ResetData ==
    /\ ResetEnabled(World)
    /\ Do(APP_resetData(Enter(World, "resetData")))
    /\ UNCHANGED <<clock, unitChanges>>

\* the weight-unit select changes to newUnit: changeWeightUnit
ChangeWeightUnit(newUnit) ==
    LET w0 == [Enter(World, "changeWeightUnit") EXCEPT
                  !.ui.inputs.weightUnit = newUnit]
    IN  /\ newUnit # ui.inputs.weightUnit
        /\ unitChanges < MaxUnitChanges
        /\ unitChanges' = unitChanges + 1
        /\ Do([w0 EXCEPT !.data = DM_changeUnit(@, UI_getSettings(w0).weightUnit)])
        /\ UNCHANGED clock

\* the record-duration and rfd-window inputs change: updateSettings
UpdateSettings(typed) ==
    LET w0 == [Enter(World, "updateSettings") EXCEPT
                  !.ui.inputs.recordDuration = typed.recordDuration,
                  !.ui.inputs.rfdWindow = typed.rfdWindow]
    IN  /\ \/ typed.recordDuration # ui.inputs.recordDuration
           \/ typed.rfdWindow # ui.inputs.rfdWindow
        /\ Do(APP_updateSettings(w0))
        /\ UNCHANGED <<clock, unitChanges>>

\* the callback of the setInterval of startRecording, for the armed timer h;
\* force is what _generateDemoData computes in demo mode
IntervalTick(h, force) ==
    LET w0 == Enter(World, "intervalTick")
        elapsed == clock - data.recordingStartTime
        demo == app.isDemoMode /\ data.isRecording
        w1 == IF demo
              THEN APP_processNewForceValue(w0, force, data.weightUnit, TRUE, clock)
              ELSE w0
        settings == UI_getSettings(w1)
        stops == settings.recordDuration > 0 /\ elapsed >= settings.recordDuration
    IN  /\ h \in intervals
        /\ Do(IF stops THEN APP_stopRecording(w1, "stop") ELSE w1)
        /\ UNCHANGED <<clock, unitChanges>>

\* a setTimeout of addChartDataPoint fires: _updateChartFromBuffer
FlushTimeout ==
    /\ timeouts > 0
    /\ Do(UI_updateChartFromBuffer(
            [Enter(World, "flushTimeout") EXCEPT !.timeouts = @ - 1]))
    /\ UNCHANGED <<clock, unitChanges>>

\* the decoder is given the notification
Decode ==
    /\ ~rx.decoded
    /\ rx' = [rx EXCEPT !.decoded = TRUE,
                        !.out = HandleDataNotification(rx.frame)]
    /\ UNCHANGED <<data, ui, chart, timeouts, app, intervals, device,
                   awaiting, clock, unitChanges, stats, session, conv, last>>

\* tare button
TareDevice ==
    /\ CalibrationEnabled(World)
    /\ Do(APP_tareDevice(Enter(World, "tareDevice")))
    /\ UNCHANGED <<clock, unitChanges>>

\* calibrate button
CalibrateDevice(valid) ==
    /\ CalibrationEnabled(World)
    /\ Do(APP_calibrateDevice(Enter(World, "calibrateDevice"), valid))
    /\ UNCHANGED <<clock, unitChanges>>

\* device.getBatteryLevel()
RequestBattery ==
    /\ device.connected
    /\ Do(Suspend(Enter(World, "getBatteryLevel"), "battery"))
    /\ UNCHANGED <<clock, unitChanges>>

\* the write of a tare, calibrate or battery command settles
CommandResume(kind, written) ==
    /\ awaiting[kind] > 0
    /\ written => device.connected
    /\ Do(APP_commandEnd(Resume(Enter(World, "commandResume"), kind), kind,
                         written))
    /\ UNCHANGED <<clock, unitChanges>>

\* the decimal digits
DigitValue ==
    ("0" :> 0) @@ ("1" :> 1) @@ ("2" :> 2) @@ ("3" :> 3) @@ ("4" :> 4) @@
    ("5" :> 5) @@ ("6" :> 6) @@ ("7" :> 7) @@ ("8" :> 8) @@ ("9" :> 9)

\* the number the digits text[i..] start with, after the digits read so far
\* gave acc; NaN when no digit was read at all
RECURSIVE ParseDigits(_, _, _, _)
ParseDigits(text, i, acc, any) ==
    IF i <= Len(text) /\ text[i] \in DOMAIN DigitValue
    THEN ParseDigits(text, i + 1, 10 * acc + DigitValue[text[i]], TRUE)
    ELSE IF any THEN acc ELSE NaN

\* parseFloat(text) for a text of a sign and digits: the longest prefix that
\* is a number, NaN when there is none
ParseFloat(text) ==
    LET signed == text # <<>> /\ text[1] \in {"-", "+"}
        magnitude == ParseDigits(text, IF signed THEN 2 ELSE 1, 0, FALSE)
    IN  IF magnitude = NaN THEN NaN
        ELSE IF signed /\ text[1] = "-" THEN -magnitude ELSE magnitude

\* notifications while the rfd window is typed: those of Frames and a single
\* sample of 3.0
SettingsFrames == Frames \cup { <<RESPONSE_WEIGHT, 1>> \o F32_3 \o U32_ts }

\* texts typed into the rfd-window input, in ms
RfdWindowTexts ==
    { <<"1", "0", "0">>, <<"2", "0">>, <<"5", "0", "m", "s">>, <<"0">>,
      <<"-", "5">>, <<"a", "b", "c">>, <<>> }

\* the rfd-window input changes to text: updateSettings, whose getSettings
\* gives parseFloat(text) / 1000 s
TypeRfdWindow(text) ==
    LET w0 == [Enter(World, "updateSettings") EXCEPT
                  !.ui.inputs.rfdWindow = ParseFloat(text)]
    IN  /\ ParseFloat(text) # ui.inputs.rfdWindow
        /\ Do(APP_updateSettings(w0))
        /\ UNCHANGED <<clock, unitChanges>>

\* notifications arriving one after the other
StreamFrames ==
    Frames
    \cup { <<>>, <<RESPONSE_WEIGHT>>, <<9>>, <<255, 1>>,
           <<9, 2>> \o SampleBytes(2), <<RESPONSE_BATTERY, 184>>,
           <<RESPONSE_LOW_BATTERY>>,
           <<RESPONSE_WEIGHT, 1>> \o F32_2 \o U32_ts \o <<0>> }

\* characteristicvaluechanged: the handler is given the next notification
Receive(frame) ==
    /\ rx' = [frame |-> frame, decoded |-> TRUE,
              out |-> HandleDataNotification(frame),
              followed |-> rx.decoded, before |-> rx.frame]
    /\ UNCHANGED <<data, ui, chart, timeouts, app, intervals, device,
                   awaiting, clock, unitChanges, stats, session, conv, last>>

----------------------------------------------------------------------------
(* The data manager on its own: its methods called in any order, as        *)
(* onWeightUpdate, the buttons and the unit select call them                *)

\* units the select is switched between
SessionUnits == {"kg", "lbs"}

\* forces of the samples
SessionForces == {-5 * Scale, 5 * Scale, 15 * Scale}

\* updateStatistics: the five statistics handed to the display
APP_updateStatistics(d) ==
    [computed |-> TRUE,
     timeToPeak |-> getTimeToPeak(d),
     avgForce |-> getAverageForce(d),
     impulse |-> getImpulse(d),
     timeToPeakRFD |-> getTimeToPeakRFD(d),
     avgRFD |-> getAverageRFD(d)]

\* a method of the data manager ends in d
DataDo(d, s) ==
    /\ Len(d.forceHistory) <= MaxSamples
    /\ data' = d
    /\ session' = s
    /\ stats' = NoStats
    /\ UNCHANGED <<ui, chart, timeouts, app, intervals, device, awaiting,
                   rx, conv, last>>

DataTick ==
    /\ clock < MaxDataClock * ClockStep
    /\ clock' = clock + ClockStep
    /\ UNCHANGED <<data, ui, chart, timeouts, app, intervals, device,
                   awaiting, unitChanges, rx, stats, session, conv, last>>

\* data.startRecording()
DataStartRecording ==
    /\ DataDo(DM_startRecording(data, clock),
              [NoSession EXCEPT
                 !.restarted = /\ data.isRecording
                               /\ data.rfdHistory # <<>>
                               /\ Last(data.rfdHistory).rfd # 0])
    /\ UNCHANGED <<clock, unitChanges>>

\* a sample: data.updateForce(force), and data.addForceDataPoint(force) when
\* the session records
DataSample(force) ==
    LET d1 == DM_updateForce(data, force, "kg")
    IN  /\ DataDo(IF data.isRecording
                  THEN DM_addForceDataPoint(d1, force, "kg", clock)
                  ELSE d1,
                  [session EXCEPT !.tracked = FALSE, !.origin = DataInit,
                                  !.via = "kg", !.changes = 0])
        /\ UNCHANGED <<clock, unitChanges>>

\* data.stopRecording()
DataStopRecording ==
    /\ data.isRecording
    /\ DataDo(DM_stopRecording(data),
              [session EXCEPT !.tracked = FALSE, !.origin = DataInit,
                              !.via = "kg", !.changes = 0])
    /\ UNCHANGED <<clock, unitChanges>>

\* data.reset()
DataReset ==
    /\ DataDo(DM_reset(data),
              [session EXCEPT !.tracked = FALSE, !.origin = DataInit,
                              !.via = "kg", !.changes = 0])
    /\ UNCHANGED <<clock, unitChanges>>

\* data.changeUnit(newUnit)
DataChangeUnit(newUnit) ==
    /\ newUnit # data.weightUnit
    /\ unitChanges < MaxDataUnitChanges
    /\ unitChanges' = unitChanges + 1
    /\ DataDo(DM_changeUnit(data, newUnit),
              IF session.tracked
              THEN [session EXCEPT !.pure = FALSE, !.changes = @ + 1]
              ELSE [session EXCEPT !.pure = FALSE, !.tracked = TRUE,
                                   !.origin = data, !.via = newUnit,
                                   !.changes = 1])
    /\ UNCHANGED clock

\* updateStatistics()
DataStatistics ==
    /\ ~stats.computed
    /\ stats' = APP_updateStatistics(data)
    /\ UNCHANGED <<data, ui, chart, timeouts, app, intervals, device,
                   awaiting, clock, unitChanges, rx, session, conv, last>>

----------------------------------------------------------------------------
(* The data manager with rfdSmoothingFactor set to 1                       *)

\* forces of the samples
ScenarioForces == {0, 10 * Scale, 20 * Scale}

\* a new DataManager whose rfdSmoothingFactor was set to 1.0
InitScenario ==
    /\ data = [DataInit EXCEPT !.rfdSmoothingFactor = AlphaScale]
    /\ ui = [connected |-> FALSE, recording |-> FALSE, demoMode |-> FALSE,
             chart |-> TRUE, chartDataBuffer |-> <<>>,
             isChartUpdateScheduled |-> FALSE, inputs |-> DefaultInputs]
    /\ chart = EmptyChart
    /\ timeouts = 0
    /\ app = [recordingInterval |-> 0, isDemoMode |-> FALSE]
    /\ intervals = {}
    /\ device = [connected |-> FALSE, measuring |-> FALSE]
    /\ awaiting = [k \in Kinds |-> 0]
    /\ clock = 0
    /\ unitChanges = 0
    /\ last = Observed("init")
    /\ stats = NoStats
    /\ session = NoSession
    /\ rx = NoRx
    /\ conv = NoConv

----------------------------------------------------------------------------
(* convertValue on its own                                                 *)

\* the values converted: numbers up to 2, and the values that are no numbers
ConvertValues == {-2 * Scale, -1, 0, 1, Scale, (3 * Scale) \div 2, 2 * Scale,
                  NaN, Inf}

\* the unit names passed: the three units and a name that is none of them
ConvertUnits == Units \cup {"g"}

InitConvert ==
    /\ InitPage
    /\ rx = NoRx
    /\ conv \in [value : ConvertValues, fromUnit : ConvertUnits,
                 toUnit : ConvertUnits, called : {FALSE}, out : {0},
                 warned : {FALSE}]

\* convertValue(value, fromUnit, toUnit)
Convert ==
    /\ ~conv.called
    /\ conv' = [conv EXCEPT
                  !.called = TRUE,
                  !.out = convertValue(conv.value, conv.fromUnit, conv.toUnit),
                  !.warned = convertWarns(conv.fromUnit, conv.toUnit)]
    /\ UNCHANGED <<data, ui, chart, timeouts, app, intervals, device,
                   awaiting, clock, unitChanges, rx, stats, session, last>>

----------------------------------------------------------------------------
(* Specifications                                                          *)

\* the page with a device and the demo generator
Next ==
    \/ Tick
    \/ Connect
    \/ Disconnected
    \/ \E frame \in Frames : Notify(frame)
    \/ StartRecording
    \/ \E written \in BOOLEAN : StartResume(written)
    \/ StopRecording
    \/ \E kind \in {"stop", "stopToggle"}, written \in BOOLEAN :
          StopResume(kind, written)
    \/ DisconnectResume
    \/ ToggleDemoMode
    \/ ResetData
    \/ \E h \in 1 .. MaxHandles, force \in DemoForces : IntervalTick(h, force)
    \/ FlushTimeout

Spec == Init /\ [][Next]_vars

\* the page with a device, the unit select and the settings inputs
NextUnits ==
    \/ Tick
    \/ Connect
    \/ \E frame \in Frames : Notify(frame)
    \/ StartRecording
    \/ StartResume(TRUE)
    \/ StopRecording
    \/ StopResume("stop", TRUE)
    \/ ResetData
    \/ \E newUnit \in Units : ChangeWeightUnit(newUnit)
    \/ \E typed \in TypedSettings : UpdateSettings(typed)
    \/ FlushTimeout

SpecUnits == Init /\ [][NextUnits]_vars

\* the decoder alone
NextDecode == Decode

SpecDecode == InitDecode /\ [][NextDecode]_vars

\* the data manager on its own
NextData ==
    \/ DataTick
    \/ DataStartRecording
    \/ \E force \in SessionForces : DataSample(force)
    \/ DataStopRecording
    \/ DataReset
    \/ \E newUnit \in SessionUnits : DataChangeUnit(newUnit)
    \/ DataStatistics

SpecData == Init /\ [][NextData]_vars

\* the page with a device and a record duration, left alone by the user from
\* Start until the recording has ended: the user acts when nothing is recorded,
\* armed or awaited, and starts a recording whose duration ends within MaxClock
NextTimer ==
    \/ Tick
    \/ (\A kind \in Kinds : awaiting[kind] = 0) /\ Connect
    \/ Disconnected
    \/ \E frame \in Frames : Notify(frame)
    \/ /\ ~data.isRecording /\ intervals = {}
       /\ \A kind \in Kinds : awaiting[kind] = 0
       /\ \E typed \in TypedSettings \cup
                        {[recordDuration |-> 0,
                          rfdWindow |-> DefaultInputs.rfdWindow]} :
              UpdateSettings(typed)
    \/ /\ ~data.isRecording /\ intervals = {}
       /\ \A kind \in Kinds : awaiting[kind] = 0
       /\ clock + ui.inputs.recordDuration <= MaxClock * ClockStep
       /\ StartRecording
    \/ \E written \in BOOLEAN : StartResume(written)
    \/ \E written \in BOOLEAN : StopResume("stop", written)
    \/ \E h \in 1 .. MaxHandles, force \in DemoForces : IntervalTick(h, force)
    \/ FlushTimeout

\* time passes, and an armed setInterval timer keeps calling its callback
SpecTimer ==
    /\ Init
    /\ [][NextTimer]_vars
    /\ WF_vars(Tick)
    /\ WF_vars(\E h \in 1 .. MaxHandles, force \in DemoForces :
                  IntervalTick(h, force))

\* App.startRecording() called as a method, whatever the Start button shows
CallStartRecording ==
    /\ Do(APP_startRecording(Enter(World, "startRecording"), clock))
    /\ UNCHANGED <<clock, unitChanges>>

\* the page with a device whose startRecording is also called directly
NextCalls ==
    \/ Tick
    \/ Connect
    \/ Disconnected
    \/ \E frame \in Frames : Notify(frame)
    \/ CallStartRecording
    \/ \E written \in BOOLEAN : StartResume(written)
    \/ StopRecording
    \/ \E written \in BOOLEAN : StopResume("stop", written)
    \/ \E h \in 1 .. MaxHandles, force \in DemoForces : IntervalTick(h, force)
    \/ FlushTimeout

SpecCalls == Init /\ [][NextCalls]_vars

\* the page with its commands to the device
NextCommands ==
    \/ Tick
    \/ Connect
    \/ Disconnected
    \/ \E frame \in Frames : Notify(frame)
    \/ StartRecording
    \/ \E written \in BOOLEAN : StartResume(written)
    \/ StopRecording
    \/ \E written \in BOOLEAN : StopResume("stop", written)
    \/ TareDevice
    \/ \E valid \in BOOLEAN : CalibrateDevice(valid)
    \/ RequestBattery
    \/ \E kind \in CommandKinds, written \in BOOLEAN :
          CommandResume(kind, written)

SpecCommands == Init /\ [][NextCommands]_vars

\* the page with its rfd-window input typed into
NextSettings ==
    \/ Tick
    \/ Connect
    \/ \E frame \in SettingsFrames : Notify(frame)
    \/ StartRecording
    \/ \E written \in BOOLEAN : StartResume(written)
    \/ FlushTimeout
    \/ \E text \in RfdWindowTexts : TypeRfdWindow(text)

SpecSettings == Init /\ [][NextSettings]_vars

\* the data manager without smoothing, recording samples
NextScenario ==
    \/ DataTick
    \/ DataStartRecording
    \/ \E force \in ScenarioForces : DataSample(force)

SpecScenario == InitScenario /\ [][NextScenario]_vars

\* the notification handler given a stream
NextReceive == \E frame \in StreamFrames : Receive(frame)

SpecReceive == Init /\ [][NextReceive]_vars

\* convertValue on its own
NextConvert == Convert

SpecConvert == InitConvert /\ [][NextConvert]_vars

----------------------------------------------------------------------------
(* Properties                                                              *)

\* the series a history or a buffer holds
ForceSeries(points) == [i \in 1 .. Len(points) |-> points[i].force]
RfdSeries(points) == [i \in 1 .. Len(points) |-> points[i].rfd]

RECURSIVE MaxOf(_)
MaxOf(s) ==
    IF Len(s) = 1 THEN s[1]
    ELSE LET m == MaxOf(Tail(s)) IN IF s[1] > m THEN s[1] ELSE m

\* C1: forceHistory and rfdHistory have the same length and, index by index,
\* the same time, after any sequence of startRecording, samples,
\* stopRecording, reset and changeUnit.
C1_HistoriesAligned ==
    /\ Len(data.forceHistory) = Len(data.rfdHistory)
    /\ \A i \in 1 .. Len(data.forceHistory) :
          data.rfdHistory[i].time = data.forceHistory[i].time

\* two samples recorded at different times, then converted by a unit change
C1_Witness ==
    /\ Len(data.forceHistory) = 2
    /\ Len(data.rfdHistory) = 2
    /\ data.forceHistory[2].time > data.forceHistory[1].time
    /\ data.weightUnit # "kg"

\* C2: whenever forceHistory is not empty, peakForce is the maximum force
\* stored in it.
C2_PeakIsHistoryMax ==
    data.forceHistory # <<>> =>
        data.peakForce = MaxOf(ForceSeries(data.forceHistory))

\* a number held as a quantity of unit tag is a quantity of unit active
\* (zero is the same quantity in every unit)
ExpressedIn(value, tag, active) == tag = active \/ value = 0

\* C3: every stored force-like quantity is expressed in the active
\* weightUnit.
C3_AllInActiveUnit ==
    /\ \A f \in {"currentForce", "peakForce", "currentRFD", "peakRFD",
                 "targetForce", "maxForceRange", "maxRFDRange"} :
          ExpressedIn(data[f], data.unitOf[f], data.weightUnit)
    /\ \A i \in 1 .. Len(data.forceHistory) :
          ExpressedIn(data.forceHistory[i].force, data.forceHistory[i].unit,
                      data.weightUnit)
    /\ \A i \in 1 .. Len(data.rfdHistory) :
          ExpressedIn(data.rfdHistory[i].rfd, data.rfdHistory[i].unit,
                      data.weightUnit)

\* C4: reset in either state leaves the session Idle, the histories empty
\* and currentForce, peakForce, currentRFD, peakRFD zero.
C4_ResetLeavesIdle ==
    last.op = "resetData" =>
        /\ ~data.isRecording
        /\ data.forceHistory = <<>> /\ data.rfdHistory = <<>>
        /\ data.currentForce = 0 /\ data.peakForce = 0
        /\ data.currentRFD = 0 /\ data.peakRFD = 0

\* C5: an event that finds the session Idle appends to neither history (it
\* leaves them as they are, or empties them); and the step that makes the
\* session Idle leaves the recording timer of the App cancelled.
C5_IdleAppendsNothing ==
    [][ /\ ~data.isRecording =>
            /\ data'.forceHistory \in {data.forceHistory, <<>>}
            /\ data'.rfdHistory \in {data.rfdHistory, <<>>}
        /\ data.isRecording /\ ~data'.isRecording =>
            /\ app'.recordingInterval = 0
            /\ app.recordingInterval \notin intervals'
      ]_vars

\* a sample arrived after the recording stopped: it is the current force and
\* not the last point of the history
C5_Witness ==
    /\ ~data.isRecording
    /\ data.forceHistory # <<>>
    /\ data.currentForce # Last(data.forceHistory).force

\* C6: the event in which the device goes from connected to disconnected
\* while the session is Recording ends with the recording timer cancelled,
\* isRecording false and the pending points of the render buffer on the
\* chart (or cleared with it, when the handler goes on to reset the chart).
C6_DisconnectStops ==
    [][ device.connected /\ ~device'.connected /\ data.isRecording =>
            /\ ~data'.isRecording
            /\ app'.recordingInterval = 0
            /\ app.recordingInterval \notin intervals'
            /\ ~ui'.recording
            /\ ui'.chartDataBuffer = <<>>
            /\ \/ chart' = EmptyChart
               \/ /\ chart'.force =
                        chart.force \o ForceSeries(ui.chartDataBuffer)
                  /\ chart'.rfd = chart.rfd \o RfdSeries(ui.chartDataBuffer)
      ]_vars

\* the device dropped the connection during a recording whose points are now
\* on the chart
C6_Witness ==
    /\ last.op = "disconnected"
    /\ last.stopped
    /\ ~data.isRecording
    /\ chart.force # <<>>
    /\ chart.force = ForceSeries(data.forceHistory)

\* C7: the chart followed by the render buffer holds the recorded points,
\* each once and in the order they were pushed; when the recording display
\* is off the buffer is empty.
C7_NoPointDropped ==
    /\ chart.force \o ForceSeries(ui.chartDataBuffer)
          = ForceSeries(data.forceHistory)
    /\ chart.rfd \o RfdSeries(ui.chartDataBuffer)
          = RfdSeries(data.rfdHistory)
    /\ ~ui.recording => ui.chartDataBuffer = <<>>

\* C8: the pushes of an event add one timeout when none is scheduled and
\* none when one is, whatever their number, and draw nothing; the timeout,
\* when it fires, draws every buffered point in one chart update.
C8_OneTimeoutOneBatch ==
    [][ /\ Len(ui'.chartDataBuffer) > Len(ui.chartDataBuffer) =>
            /\ ui'.isChartUpdateScheduled
            /\ timeouts' = timeouts + (IF ui.isChartUpdateScheduled THEN 0 ELSE 1)
            /\ chart' = chart
        /\ timeouts' < timeouts =>
            /\ timeouts' = timeouts - 1
            /\ ui'.chartDataBuffer = <<>>
            /\ chart'.force = chart.force \o ForceSeries(ui.chartDataBuffer)
            /\ chart'.rfd = chart.rfd \o RfdSeries(ui.chartDataBuffer)
            /\ chart'.updates =
                  chart.updates + (IF ui.chartDataBuffer = <<>> THEN 0 ELSE 1)
      ]_vars

\* the one timeout of two pushes has fired and drawn both in one update
C8_Witness ==
    /\ ui.recording
    /\ ui.chartDataBuffer = <<>>
    /\ timeouts = 0
    /\ chart.updates = 1
    /\ Len(chart.force) = 2

\* the decoder was given a weight notification of at least two bytes
BatchedForm(frame) == Len(frame) >= 2 /\ frame[1] = RESPONSE_WEIGHT

\* the samples whose eight bytes fit, of the frame[2] announced
FittingSamples(frame) ==
    LET n == frame[2]
        fit == (Len(frame) - 2) \div 8
        k == IF n < fit THEN n ELSE fit
    IN  [i \in 1 .. k |-> SampleAt(frame, 2 + 8 * (i - 1))]

\* C9: of a batched weight notification the decoder emits, in order, the
\* min(n, floor((L - 2) / 8)) first samples, and raises no exception.
C9_BatchPrefix ==
    rx.decoded /\ BatchedForm(rx.frame) =>
        /\ rx.out.samples = FittingSamples(rx.frame)
        /\ ~rx.out.raised
        /\ rx.out.battery = <<>>

\* [0x01, 0x02, 8 bytes, 3 bytes] has given exactly one sample
C9_Witness ==
    /\ rx.decoded
    /\ rx.frame = <<RESPONSE_WEIGHT, 2>> \o F32_2 \o U32_ts \o <<0, 0, 64>>
    /\ Len(rx.out.samples) = 1
    /\ rx.out.samples[1].weight = 2 * Scale

\* C10: a single-sample weight notification of the older format (the float
\* at offset 1, the uint at offset 5, at least 9 bytes) is decoded to exactly
\* that sample.
C10_LegacySample ==
    rx.decoded /\ rx.frame \in LegacyFrames =>
        rx.out.samples = << SampleAt(rx.frame, 1) >>

\* the session a fresh recording of the first k force points of d leaves
RECURSIVE Replay(_, _)
Replay(d, k) ==
    IF k = 0 THEN DM_startRecording(d, 0)
    ELSE LET point == d.forceHistory[k]
         IN  DM_addForceDataPoint(Replay(d, k - 1), point.force, point.unit,
                                  point.time)

\* C11: startRecording, called when idle or when recording, leaves the manager
\* recording with empty histories, peakRFD 0 and recordingStartTime the
\* current time; the first RFD of a session is 0, and as long as the unit is
\* not changed the RFD history and peak of a session are those its own force
\* points give to a manager that never recorded before.
C11_StartFreshSession ==
    [][ /\ DataStartRecording =>
             /\ data'.isRecording
             /\ data'.forceHistory = <<>> /\ data'.rfdHistory = <<>>
             /\ data'.peakRFD = 0
             /\ data'.recordingStartTime = clock
        /\ data'.rfdHistory # <<>> => data'.rfdHistory[1].rfd = 0
        /\ session'.pure =>
             LET fresh == Replay(data', Len(data'.forceHistory))
             IN  /\ fresh.rfdHistory = data'.rfdHistory
                 /\ fresh.peakRFD = data'.peakRFD
      ]_vars

\* a session restarted while recording, whose second sample has an RFD
C11_Witness ==
    /\ session.restarted /\ session.pure
    /\ Len(data.rfdHistory) >= 2
    /\ data.rfdHistory[2].rfd \notin {0, NaN}

\* the largest number of a series; NaN is not a number
MaxNumber(s) ==
    LET numbers == {s[i] : i \in DOMAIN s} \ {NaN}
    IN  CHOOSE m \in numbers : \A x \in numbers : x <= m

\* C12: while rfdHistory holds a point, peakRFD is the largest rfd stored in
\* it, after any samples, restarts, resets and unit changes.
C12_PeakRFDIsHistoryMax ==
    data.rfdHistory # <<>> =>
        data.peakRFD = MaxNumber(RfdSeries(data.rfdHistory))

\* after a unit change, a history whose peak is not its last value
C12_Witness ==
    /\ ~session.pure
    /\ data.weightUnit = "lbs"
    /\ Len(data.rfdHistory) = 3
    /\ data.peakRFD > 0
    /\ data.rfdHistory[2].rfd = data.peakRFD
    /\ data.rfdHistory[3].rfd < data.peakRFD

\* the time of the first point whose value is the largest of the series
FirstMaxTime(points, series) ==
    LET m == MaxNumber(series)
        first == CHOOSE i \in DOMAIN series :
                    /\ series[i] = m
                    /\ \A j \in 1 .. (i - 1) : series[j] # m
    IN  points[first].time

\* C13: getTimeToPeak and getTimeToPeakRFD return the time of the first point
\* whose value equals the maximum of the series, also when the series is all
\* zero or all negative and its first point has a time above 0.
C13_TimeToPeakIsFirstMax ==
    stats.computed =>
        /\ data.forceHistory # <<>> =>
             stats.timeToPeak =
                FirstMaxTime(data.forceHistory, ForceSeries(data.forceHistory))
        /\ data.rfdHistory # <<>> =>
             stats.timeToPeakRFD =
                FirstMaxTime(data.rfdHistory, RfdSeries(data.rfdHistory))

\* the sum of the numbers of a series
RECURSIVE SeriesSum(_)
SeriesSum(s) == IF s = <<>> THEN 0 ELSE s[1] + SeriesSum(Tail(s))

\* mean is the arithmetic mean of the series, to the nearest 1/Scale; a
\* series holding NaN has the mean NaN, the empty series the mean 0
IsMeanOf(mean, s) ==
    IF s = <<>> THEN mean = 0
    ELSE IF \E i \in DOMAIN s : s[i] = NaN THEN mean = NaN
    ELSE 2 * Abs(mean * Len(s) - SeriesSum(s)) <= Len(s)

\* C19: getAverageForce and getAverageRFD are the arithmetic means of the
\* stored force and rfd values, 0 for an empty history; forces 5 and 15 have
\* the average 10.
C19_AveragesAreMeans ==
    stats.computed =>
        /\ IsMeanOf(stats.avgForce, ForceSeries(data.forceHistory))
        /\ IsMeanOf(stats.avgRFD, RfdSeries(data.rfdHistory))
        /\ ForceSeries(data.forceHistory) = <<5 * Scale, 15 * Scale>> =>
              stats.avgForce = 10 * Scale

\* the statistics of the forces 5 and 15, with a positive mean rfd
C19_Witness ==
    /\ stats.computed
    /\ ForceSeries(data.forceHistory) = <<5 * Scale, 15 * Scale>>
    /\ stats.avgForce = 10 * Scale
    /\ IsFinite(stats.avgRFD) /\ stats.avgRFD > 0

\* twice the trapezoidal integral of the force over time, in 1/TimeScale s:
\* every force weighted with the distance between its neighbours' times
TwiceTrapezoid(h) ==
    LET n == Len(h)
        before(i) == IF i = 1 THEN h[1].time ELSE h[i - 1].time
        after(i) == IF i = n THEN h[n].time ELSE h[i + 1].time
    IN  SeriesSum([i \in 1 .. n |-> h[i].force * (after(i) - before(i))])

\* C20: getImpulse is the trapezoidal integral of force over time, 0 with
\* fewer than two points; a constant force F held for T seconds has the
\* impulse F * T.
C20_ImpulseIsTrapezoid ==
    stats.computed =>
        LET h == data.forceHistory
            n == Len(h)
        IN  /\ n < 2 => stats.impulse = 0
            /\ n >= 2 =>
                 Abs(stats.impulse * 2 * TimeScale - TwiceTrapezoid(h))
                    <= TimeScale
            /\ (n >= 2 /\ \A i \in 1 .. n : h[i].force = h[1].force) =>
                 2 * Abs(stats.impulse * TimeScale
                         - h[1].force * (h[n].time - h[1].time)) <= TimeScale

\* three samples of one force over 0.1 s, and their impulse
C20_Witness ==
    /\ stats.computed
    /\ Len(data.forceHistory) = 3
    /\ \A i \in 1 .. 3 : data.forceHistory[i].force = data.forceHistory[1].force
    /\ data.forceHistory[3].time - data.forceHistory[1].time = 2 * ClockStep
    /\ data.forceHistory[2].time > data.forceHistory[1].time
    /\ stats.impulse > 0

\* x is y up to a relative error of 1/100000 and one unit of the fixed-point
\* scale; values that are not finite have to be the same
Close(x, y) ==
    IF ~IsFinite(x) \/ ~IsFinite(y) THEN x = y
    ELSE Abs(x - y) <= 1 + Abs(y) \div 100000

\* C16: changeUnit from kg to lbs and back to kg restores maxForceRange,
\* targetForce, the peaks and every stored force and rfd up to a small
\* relative tolerance, leaves the times and lengths of the histories as they
\* were, and ends with weightUnit kg.
C16_RoundTripRestores ==
    (/\ session.tracked /\ session.changes = 2
     /\ session.origin.weightUnit = "kg" /\ session.via = "lbs") =>
        LET before == session.origin
        IN  /\ data.weightUnit = "kg"
            /\ Close(data.maxForceRange, before.maxForceRange)
            /\ Close(data.targetForce, before.targetForce)
            /\ Close(data.peakForce, before.peakForce)
            /\ Close(data.peakRFD, before.peakRFD)
            /\ Len(data.forceHistory) = Len(before.forceHistory)
            /\ Len(data.rfdHistory) = Len(before.rfdHistory)
            /\ \A i \in DOMAIN data.forceHistory :
                 /\ data.forceHistory[i].time = before.forceHistory[i].time
                 /\ Close(data.forceHistory[i].force,
                          before.forceHistory[i].force)
            /\ \A i \in DOMAIN data.rfdHistory :
                 /\ data.rfdHistory[i].time = before.rfdHistory[i].time
                 /\ Close(data.rfdHistory[i].rfd, before.rfdHistory[i].rfd)

\* a recording of three points with a peak, taken to lbs and back
C16_Witness ==
    /\ session.tracked /\ session.changes = 2
    /\ session.origin.weightUnit = "kg" /\ session.via = "lbs"
    /\ Len(session.origin.forceHistory) = 3
    /\ session.origin.peakForce > 0 /\ session.origin.peakRFD > 0
    /\ \E i \in 1 .. 3 : session.origin.forceHistory[i].force < 0
    /\ data.weightUnit = "kg"

\* the six pairs with a factor, and the factor of each
PairFactor ==
    (<<"kg", "lbs">> :> kgToLbs) @@ (<<"kg", "N">> :> kgToN) @@
    (<<"lbs", "kg">> :> lbsToKg) @@ (<<"lbs", "N">> :> lbsToN) @@
    (<<"N", "kg">> :> nToKg) @@ (<<"N", "lbs">> :> nToLbs)

\* out is value * factor / FactorScale to the nearest integer: the whole part
\* of the factor is taken out first, so that the products stay small
IsProduct(out, value, factor) ==
    LET whole == factor \div FactorScale
        part == factor % FactorScale
    IN  2 * Abs((out - value * whole) * FactorScale - value * part)
           <= FactorScale

\* C17: convertValue returns the value unchanged when both units are the same
\* and, with a warning and without failing, for a pair of units it has no
\* factor for; for each of the six pairs it has a factor for it returns the
\* value times that factor.
C17_ConvertValue ==
    conv.called =>
        LET pair == <<conv.fromUnit, conv.toUnit>>
        IN  IF conv.fromUnit = conv.toUnit
            THEN conv.out = conv.value /\ ~conv.warned
            ELSE IF pair \notin DOMAIN PairFactor
            THEN conv.out = conv.value /\ conv.warned
            ELSE /\ ~conv.warned
                 /\ IF IsFinite(conv.value)
                    THEN IsProduct(conv.out, conv.value, PairFactor[pair])
                    ELSE conv.out = conv.value

\* 1.5 kg converted to N
C17_Witness ==
    /\ conv.called
    /\ conv.fromUnit = "kg" /\ conv.toUnit = "N"
    /\ conv.value = (3 * Scale) \div 2
    /\ conv.out = 14710

\* a notification without bytes, with a code that is none of the three
\* responses, or a weight notification of fewer than 2 bytes
Malformed(frame) ==
    \/ Len(frame) = 0
    \/ frame[1] \notin {RESPONSE_BATTERY, RESPONSE_WEIGHT, RESPONSE_LOW_BATTERY}
    \/ frame[1] = RESPONSE_WEIGHT /\ Len(frame) < 2

\* what three well-formed notifications are to give
Expected ==
    (<<RESPONSE_WEIGHT, 1>> \o F32_m1 \o U32_ts
        :> [NoOutput EXCEPT
              !.samples = << [weight |-> -Scale, timestamp |-> <<0, 10000>>] >>])
    @@ (<<RESPONSE_WEIGHT, 2>> \o F32_3 \o U32_ts \o F32_2 \o U32_ts
        :> [NoOutput EXCEPT
              !.samples = << [weight |-> 3 * Scale, timestamp |-> <<0, 10000>>],
                             [weight |-> 2 * Scale, timestamp |-> <<0, 10000>>] >>])
    @@ (<<RESPONSE_BATTERY, 184, 11, 0, 0>>
        :> [NoOutput EXCEPT !.battery = << <<0, 3000>> >>])

\* C18: a notification with an unknown response code, an empty one, or a
\* weight notification shorter than 2 bytes passes no sample and no battery
\* value on and raises nothing, and the notification after it is handled as
\* any other.
C18_MalformedIgnored ==
    rx.decoded =>
        /\ Malformed(rx.frame) => rx.out = NoOutput
        /\ (rx.followed /\ Malformed(rx.before)
            /\ rx.frame \in DOMAIN Expected) => rx.out = Expected[rx.frame]

\* a batch of two samples decoded right after a notification with code 9
C18_Witness ==
    /\ rx.decoded /\ rx.followed
    /\ rx.before = <<9, 2>> \o SampleBytes(2)
    /\ Len(rx.out.samples) = 2
    /\ rx.frame \in DOMAIN Expected

RecordingKept ==
    /\ data'.isRecording = data.isRecording
    /\ data'.forceHistory = data.forceHistory
    /\ data'.rfdHistory = data.rfdHistory
    /\ data'.peakForce = data.peakForce
    /\ data'.peakRFD = data.peakRFD

\* C15: a tare, calibrate, battery or stop-measurement write that fails is
\* told to the user through onError and showError and changes neither
\* isRecording nor the histories nor the peaks, so that no failed write stops
\* a recording.
C15_FailedWriteReported ==
    [][ /\ \A kind \in CommandKinds :
              CommandResume(kind, FALSE) =>
                  last'.reported = kind /\ RecordingKept
        /\ StopResume("stop", FALSE) =>
              last'.reported = "stop" /\ RecordingKept
      ]_vars

\* the write of a tare has failed in a recording that holds a sample
C15_Witness ==
    /\ last.reported = "tare" /\ last.shown = "error"
    /\ data.isRecording
    /\ data.forceHistory # <<>>
    /\ data.peakForce > 0

\* the step is stopRecording and leaves all of the session but isRecording
StopKeepsSession ==
    DataStopRecording =>
        /\ ~data'.isRecording
        /\ data'.forceHistory = data.forceHistory
        /\ data'.rfdHistory = data.rfdHistory
        /\ data'.peakForce = data.peakForce
        /\ data'.peakRFD = data.peakRFD
        /\ data'.recordingStartTime = data.recordingStartTime

\* a step of an idle manager that is neither startRecording nor reset
IdleStep == ~data.isRecording /\ ~DataStartRecording /\ ~DataReset

\* the points of history, their values taken from fromUnit to toUnit
Converted(history, fromUnit, toUnit) ==
    [i \in DOMAIN history |->
        IF "force" \in DOMAIN history[i]
        THEN [history[i] EXCEPT
                !.force = convertValue(@, fromUnit, toUnit),
                !.unit = convertUnit(@, fromUnit, toUnit)]
        ELSE [history[i] EXCEPT
                !.rfd = convertValue(@, fromUnit, toUnit),
                !.unit = convertUnit(@, fromUnit, toUnit)]]

\* C21: stopRecording moves the manager to idle and leaves forceHistory,
\* rfdHistory, peakForce, peakRFD and recordingStartTime as they are; until
\* the next startRecording or reset no later event adds, drops or moves a
\* point of the histories, and their values change only by the conversion of a
\* unit change, so that the statistics after a stop cover the whole session.
C21_StopKeepsHistories ==
    [][ /\ StopKeepsSession
        /\ IdleStep =>
             /\ data'.forceHistory =
                  Converted(data.forceHistory, data.weightUnit, data'.weightUnit)
             /\ data'.rfdHistory =
                  Converted(data.rfdHistory, data.weightUnit, data'.weightUnit)
      ]_vars

\* C21 as it is worded: until the next startRecording or reset the histories
\* stay as they are through any later event.
C21_HistoriesUnchanged ==
    [][ /\ StopKeepsSession
        /\ IdleStep =>
             /\ data'.forceHistory = data.forceHistory
             /\ data'.rfdHistory = data.rfdHistory
      ]_vars

\* the statistics of a stopped session of three points whose unit was changed
\* after the stop
C21_Witness ==
    /\ ~data.isRecording
    /\ stats.computed
    /\ session.tracked /\ session.changes = 1
    /\ ~session.origin.isRecording
    /\ Len(session.origin.forceHistory) = 3
    /\ Len(data.forceHistory) = 3
    /\ data.peakRFD > 0

\* the two-point branch is taken for point k of history: fewer than 2 of
\* its first k points lie in the window that ends at point k
FallbackAt(history, k, window) ==
    RecentCount(SubSeq(history, 1, k), k, history[k].time, window) < 2

\* the slope _calculateRFD computes for point k of history, before smoothing
RawAt(history, k, window) ==
    LET h == SubSeq(history, 1, k)
        c == RecentCount(h, k, h[k].time, window)
    IN  IF c < 2 THEN TwoPointRFD(h[k].time, h[k].force, h[k - 1])
        ELSE RegressionSlope(h, k - c + 1, k)

\* C22: the first RFD computed in a session, on its second sample, is the raw
\* slope without smoothing, and every later RFD is alpha * raw + (1 - alpha) *
\* the RFD before it, alpha being rfdSmoothingFactor.
C22_FirstRFDUnsmoothed ==
    (session.pure /\ Len(data.rfdHistory) >= 2) =>
        /\ data.rfdHistory[2].rfd =
              RawAt(data.forceHistory, 2, data.rfdWindow)
        /\ \A k \in 3 .. Len(data.rfdHistory) :
              data.rfdHistory[k].rfd =
                 Smooth(data.rfdSmoothingFactor,
                        RawAt(data.forceHistory, k, data.rfdWindow),
                        data.rfdHistory[k - 1].rfd)

\* (f1 - f0) / (t1 - t0) for the points before and current when t1 > t0, to
\* the nearest 1/Scale, and 0 otherwise
IsTwoPointSlope(raw, before, current) ==
    LET deltaForce == current.force - before.force
        deltaTime == current.time - before.time
    IN  IF deltaTime > 0
        THEN 2 * Abs(raw * deltaTime - deltaForce * TimeScale) <= deltaTime
        ELSE raw = 0

\* the integers next to the quotient of the two-point slope of before and
\* current; 0 when no time has passed
SlopeNear(before, current) ==
    LET deltaForce == current.force - before.force
        deltaTime == current.time - before.time
    IN  IF deltaTime > 0
        THEN LET q == (deltaForce * TimeScale) \div deltaTime
             IN  (q - 1) .. (q + 1)
        ELSE {0}

\* C23: a sample recorded when fewer than 2 points of the history lie in the
\* RFD window gets as its raw RFD the slope between it and the point before
\* it when time has passed between the two, and 0 when none has; that raw RFD
\* is a finite number, and the RFD stored for it, which is the raw RFD
\* smoothed against the RFD before it, is finite when the RFD before it is.
C23_FallbackFinite ==
    [][ \A k \in (Len(data.forceHistory) + 1) .. Len(data'.forceHistory) :
          (k >= 2 /\ FallbackAt(data'.forceHistory, k, data.rfdWindow)) =>
             \E raw \in SlopeNear(data'.forceHistory[k - 1],
                                  data'.forceHistory[k]) :
                /\ IsTwoPointSlope(raw, data'.forceHistory[k - 1],
                                   data'.forceHistory[k])
                /\ data'.rfdHistory[k].rfd =
                      Smooth(data.rfdSmoothingFactor, raw,
                             data'.rfdHistory[k - 1].rfd)
                /\ IsFinite(raw)
                /\ IsFinite(data'.rfdHistory[k - 1].rfd) =>
                      IsFinite(data'.rfdHistory[k].rfd)
      ]_vars

\* two samples of one notification, recorded at one time with a window that
\* holds neither: the second has the RFD 0
C23_Witness ==
    /\ ~JsLe(0, data.rfdWindow)
    /\ Len(data.forceHistory) = 2
    /\ data.forceHistory[1].time = data.forceHistory[2].time
    /\ data.forceHistory[1].force # data.forceHistory[2].force
    /\ data.rfdHistory[2].rfd = 0

\* the samples (0, 0), (0.05, 10), (0.10, 20) recorded with a window of 0.1 s
\* and without smoothing
Scenario ==
    /\ data.rfdWindow = 100 /\ data.rfdSmoothingFactor = AlphaScale
    /\ data.forceHistory =
          << [time |-> 0, force |-> 0, unit |-> "kg"],
             [time |-> 50, force |-> 10 * Scale, unit |-> "kg"],
             [time |-> 100, force |-> 20 * Scale, unit |-> "kg"] >>

\* the number of the first k points of the force history that take part in
\* the regression for point k
InWindow(k) ==
    RecentCount(SubSeq(data.forceHistory, 1, k), k, data.forceHistory[k].time,
                data.rfdWindow)

\* C24: the samples (0, 0), (0.05, 10), (0.10, 20) with rfdWindow 0.1 and
\* smoothing factor 1 give the RFD 0 at 0, the RFD 200 at 0.05 by the
\* regression over the two points, both of which lie in the window, and the
\* RFD 200 at 0.10 by the regression over all three points.
C24_ScenarioRegression ==
    Scenario =>
        /\ RfdSeries(data.rfdHistory) = <<0, 200 * Scale, 200 * Scale>>
        /\ InWindow(2) = 2
        /\ InWindow(3) = 3
        /\ data.rfdHistory[3].rfd = RegressionSlope(data.forceHistory, 1, 3)

\* C24 as it is worded: the RFD 200 at 0.05 comes from the two-point
\* fallback, the RFD at 0.10 from the regression over the three points and is
\* positive and finite.
C24_ScenarioFallback ==
    Scenario =>
        /\ data.rfdHistory[1].rfd = 0
        /\ data.rfdHistory[2].rfd = 200 * Scale
        /\ FallbackAt(data.forceHistory, 2, data.rfdWindow)
        /\ InWindow(3) = 3
        /\ IsFinite(data.rfdHistory[3].rfd) /\ data.rfdHistory[3].rfd > 0

\* the three samples are recorded
C24_Witness ==
    /\ Scenario
    /\ Len(data.rfdHistory) = 3
    /\ data.peakRFD = 200 * Scale


\* C25: isChartUpdateScheduled is true exactly when a flush timeout is
\* pending, and at most one flush timeout is outstanding at any time.
C25_FlagIsPendingTimeout ==
    /\ ui.isChartUpdateScheduled <=> timeouts > 0
    /\ timeouts <= 1


\* C26: whenever isRecording is false and no startRecording is suspended at
\* its START_MEASUREMENT write, no recording interval timer is armed.
C26_NoTimerSurvivesStop ==
    (~data.isRecording /\ awaiting["start"] = 0) => intervals = {}

\* C27: at most one recording interval timer is armed at any time.
C27_AtMostOneTimer == Cardinality(intervals) <= 1


\* C28: every rfd value stored in rfdHistory is a finite number, also when
\* consecutive samples carry the same time.
C28_RfdHistoryFinite ==
    \A i \in 1 .. Len(data.rfdHistory) : IsFinite(data.rfdHistory[i].rfd)


\* C29: with recordDuration > 0 an armed recording timer that keeps ticking
\* leads to a session that is not recording and has no timer armed, without
\* any user action; with recordDuration = 0 no tick of the timer stops the
\* recording or cancels the timer.
C29_TimerEndsRecording ==
    /\ (intervals # {} /\ ui.inputs.recordDuration > 0)
          ~> (~data.isRecording /\ intervals = {})
    /\ [][ ( /\ ui.inputs.recordDuration = 0
             /\ \E h \in 1 .. MaxHandles, force \in DemoForces :
                   IntervalTick(h, force) ) =>
              /\ data'.isRecording = data.isRecording
              /\ intervals' = intervals
              /\ ~last'.stopped
         ]_vars

\* the timer has called stopRecording once the duration had passed
C29_Witness ==
    /\ last.stopped /\ last.op = "other"
    /\ ui.inputs.recordDuration > 0
    /\ clock - data.recordingStartTime >= ui.inputs.recordDuration
    /\ data.forceHistory # <<>>
    /\ ~data.isRecording
    /\ intervals = {}


\* C30: a startRecording whose START_MEASUREMENT command fails because the
\* device is not connected returns with isRecording true only if the
\* recording timer is armed, and otherwise with the session idle as before.
C30_NotHalfStarted ==
    [][ (CallStartRecording /\ ~app.isDemoMode /\ ~device.connected) =>
            /\ data'.isRecording => app'.recordingInterval \in intervals'
            /\ ~data'.isRecording =>
                  /\ ~ui'.recording
                  /\ intervals' = intervals
      ]_vars

====
